---- MODULE Spec2Model ----
(***************************************************************************)
(* Appointment scheduling of the Sahatak backend                           *)
(* (backend/routes/appointments.py, backend/models.py,                     *)
(* backend/routes/users.py, backend/routes/admin.py).                      *)
(*                                                                         *)
(* Time is counted in seconds since 00:00:00 of day 0, a Sunday, in the    *)
(* naive local time the routes compare against datetime.now().  An         *)
(* appointment id is its position in the ledger (autoincrement key).       *)
(***************************************************************************)
EXTENDS Integers, Sequences, FiniteSets, TLC

VARIABLES ledger, now, doctors, resp, reqs

vars == <<ledger, now, doctors, resp, reqs>>

(***************************************************************************)
(* Bounds of the model                                                     *)
(***************************************************************************)
MaxAppts == 2

MaxReqs == 2

(***************************************************************************)
(* Program constants                                                       *)
(***************************************************************************)
CutoffSecs == 3600

SlotSecs == 1800

DaySecs == 86400

MinuteSecs == 60

\* the upper limit of a consultation fee, 10,000, in thousandths
MaxFeeMills == 10000 * 1000

(***************************************************************************)
(* Instants and inputs used by the specifications.  Day 1 is a Monday.     *)
(*   115140 = Mon 07:59:00   115200 = Mon 08:00:00   115260 = Mon 08:01:00 *)
(*   118800 = Mon 09:00:00   118830 = Mon 09:00:30   120600 = Mon 09:30:00 *)
(*   205200 = Tue 09:00:00                                                 *)
(***************************************************************************)
Nows == {115140, 118800}

CutoffNows == {115140, 115200, 115260}

Times == {118800, 120600}

AvailTimes == {118800, 118830, 205200}

\* 119400 = Mon 09:10:00
LateNows == {118800, 119400}

\* 435600 = Fri 01:00:00
DayNows == {205200, 435600}

\* weekly schedules a doctor may submit, times in minutes of the day
HourMaps ==
  {[x \in {"monday"} |-> [start |-> 540, end |-> 585]],
   [x \in {"monday"} |-> [start |-> 540, end |-> 560]],
   [x \in {"monday"} |-> [start |-> 1380, end |-> 1439]],
   [x \in {"monday", "friday"} |-> IF x = "monday" THEN [start |-> 555, end |-> 630]
                                                  ELSE [start |-> 540, end |-> 600]],
   [x \in {"tuesday"} |-> [start |-> 600, end |-> 690]],
   [x \in {"monday"} |-> [start |-> 600, end |-> 540]],
   [x \in {"monday"} |-> [start |-> 540, end |-> 540]],
   [x \in {} |-> [start |-> 0, end |-> 0]]}

\* consultation fees a doctor may submit, in thousandths: 0, 0.004, 50.005
\* and 10000.001
FeeInputs == {0, 4, 50005, 10000001}

\* a participation_type that is not in the request body
Absent == "ABSENT"

\* a consultation_fee that is not in the request body
FeeAbsent == 0 - 1

NullNote == "NULL"

NoReason == "ABSENT"

Reasons == {NoReason, "reason"}

\* users 1 and 2 are patients, user 3 is a doctor account
UserIds == {1, 2, 3}

user_type(u) == IF u \in {1, 2} THEN "patient" ELSE "doctor"

\* current_user.patient_profile.id
patient_profile_id(u) == u

DayNames == <<"sunday", "monday", "tuesday", "wednesday", "thursday", "friday", "saturday">>

Statuses == {"scheduled", "confirmed", "in_progress", "completed", "cancelled", "no_show"}

ActiveStatuses == {"scheduled", "confirmed", "in_progress"}

Response(op, kind, id) == [op |-> op, kind |-> kind, id |-> id, slots |-> <<>>]

NoResp == Response("none", "none", 0)

(***************************************************************************)
(* Doctor profile store                                                    *)
(***************************************************************************)
\* Numeric(10, 2): a fee given in thousandths is stored rounded to hundredths
Numeric2(mills) == (mills + 5) \div 10

\* variant of the default schedule that covers the whole week
DefaultHours_WholeWeek == [d \in {"monday", "tuesday", "wednesday", "thursday", "friday", "saturday", "sunday"} |-> [start |-> 540, end |-> 1020]]

DefaultHours == [d \in {"monday", "tuesday", "wednesday", "thursday", "sunday"} |-> [start |-> 540, end |-> 1020]]

InitDoctors ==
  [d \in {1, 2, 3} |->
     [is_verified |-> d # 3,
      is_active |-> TRUE,
      consultation_fee |-> IF d = 1 THEN 5000 ELSE 0,
      participation_type |-> IF d = 1 THEN "paid" ELSE "volunteer",
      configured |-> d = 1,
      available_hours |-> IF d = 1 THEN [x \in {"monday"} |-> [start |-> 540, end |-> 600]] ELSE <<>>]]

\* variant of the doctor lookup without the join on the active user
FindDoctor_AnyUser(d) ==
  /\ d \in DOMAIN doctors
  /\ doctors[d].is_verified

\* Doctor.query.filter_by(id=..., is_verified=True).join(User).filter_by(is_active=True).first()
FindDoctor(d) ==
  /\ d \in DOMAIN doctors
  /\ doctors[d].is_verified
  /\ doctors[d].is_active

validate_appointment_type(ty) == ty \in {"video", "audio", "chat"}

(***************************************************************************)
(* Ledger queries                                                          *)
(***************************************************************************)
\* variant of the create query that does not look at in_progress rows
ExistingAppointment_NoInProgress(l, d, t) ==
  {i \in DOMAIN l : /\ l[i].doctor_id = d
                    /\ l[i].appointment_date = t
                    /\ l[i].status \in {"scheduled", "confirmed"}}

\* variant of the create query without the status filter
ExistingAppointment_AnyStatus(l, d, t) ==
  {i \in DOMAIN l : /\ l[i].doctor_id = d
                    /\ l[i].appointment_date = t}

\* the conflict query of create_appointment
ExistingAppointment(l, d, t) ==
  {i \in DOMAIN l : /\ l[i].doctor_id = d
                    /\ l[i].appointment_date = t
                    /\ l[i].status \in ActiveStatuses}

\* variant of the reschedule query that does not exclude the moved row
ExistingOther_IncludesSelf(l, id, t) ==
  {i \in DOMAIN l : /\ l[i].doctor_id = l[id].doctor_id
                    /\ l[i].appointment_date = t
                    /\ l[i].status \in ActiveStatuses}

\* variant of the reschedule query that looks at scheduled rows only
ExistingOther_OnlyScheduled(l, id, t) ==
  {i \in DOMAIN l : /\ l[i].doctor_id = l[id].doctor_id
                    /\ l[i].appointment_date = t
                    /\ l[i].status = "scheduled"
                    /\ i # id}

\* the conflict query of reschedule_appointment, which excludes the moved row
ExistingOther(l, id, t) ==
  {i \in DOMAIN l : /\ l[i].doctor_id = l[id].doctor_id
                    /\ l[i].appointment_date = t
                    /\ l[i].status \in ActiveStatuses
                    /\ i # id}

\* variant that leaves the fee of the new appointment at zero
NewAppointment_NoFee(u, d, t, ty) ==
  [patient_id |-> patient_profile_id(u),
   doctor_id |-> d,
   appointment_date |-> t,
   appointment_type |-> ty,
   status |-> "scheduled",
   notes |-> NullNote,
   consultation_fee |-> 0]

NewAppointment(u, d, t, ty) ==
  [patient_id |-> patient_profile_id(u),
   doctor_id |-> d,
   appointment_date |-> t,
   appointment_type |-> ty,
   status |-> "scheduled",
   notes |-> NullNote,
   consultation_fee |-> Numeric2(doctors[d].consultation_fee * 10)]

(***************************************************************************)
(* Outcome of each handler in the current state                            *)
(***************************************************************************)
\* a date input is [fmt |-> "iso" | "bad" | "missing", ts |-> seconds]
CreateResult(u, d, date, ty) ==
  IF user_type(u) # "patient" THEN "Forbidden"
  ELSE IF d = 0 \/ date.fmt = "missing" \/ ty = "" THEN "ValidationError"
  ELSE IF ~FindDoctor(d) THEN "ValidationError"
  ELSE IF ~validate_appointment_type(ty) THEN "ValidationError"
  ELSE IF date.fmt # "iso" THEN "ValidationError"
  ELSE IF date.ts <= now THEN "ValidationError"
  ELSE IF ExistingAppointment(ledger, d, date.ts) # {} THEN "Conflict"
  ELSE "Success"

\* variant whose cutoff comparison is strict
CancelResult_StrictCutoff(u, id) ==
  IF user_type(u) # "patient" THEN "Forbidden"
  ELSE IF id \notin DOMAIN ledger THEN "NotFound"
  ELSE IF ledger[id].patient_id # patient_profile_id(u) THEN "Forbidden"
  ELSE IF ledger[id].status \in {"completed", "cancelled"} THEN "ValidationError"
  ELSE IF ledger[id].appointment_date < now + CutoffSecs THEN "ValidationError"
  ELSE "Success"

CancelResult(u, id) ==
  IF user_type(u) # "patient" THEN "Forbidden"
  ELSE IF id \notin DOMAIN ledger THEN "NotFound"
  ELSE IF ledger[id].patient_id # patient_profile_id(u) THEN "Forbidden"
  ELSE IF ledger[id].status \in {"completed", "cancelled"} THEN "ValidationError"
  ELSE IF ledger[id].appointment_date <= now + CutoffSecs THEN "ValidationError"
  ELSE "Success"

\* variant without the ownership check
RescheduleResult_NoOwnerCheck(u, id, date) ==
  IF user_type(u) # "patient" THEN "Forbidden"
  ELSE IF id \notin DOMAIN ledger THEN "NotFound"
  ELSE IF ledger[id].status \in {"completed", "cancelled", "in_progress"} THEN "ValidationError"
  ELSE IF date.fmt = "missing" THEN "ValidationError"
  ELSE IF date.fmt # "iso" THEN "ValidationError"
  ELSE IF date.ts <= now THEN "ValidationError"
  ELSE IF ExistingOther(ledger, id, date.ts) # {} THEN "Conflict"
  ELSE "Success"

RescheduleResult(u, id, date) ==
  IF user_type(u) # "patient" THEN "Forbidden"
  ELSE IF id \notin DOMAIN ledger THEN "NotFound"
  ELSE IF ledger[id].patient_id # patient_profile_id(u) THEN "Forbidden"
  ELSE IF ledger[id].status \in {"completed", "cancelled", "in_progress"} THEN "ValidationError"
  ELSE IF date.fmt = "missing" THEN "ValidationError"
  ELSE IF date.fmt # "iso" THEN "ValidationError"
  ELSE IF date.ts <= now THEN "ValidationError"
  ELSE IF ExistingOther(ledger, id, date.ts) # {} THEN "Conflict"
  ELSE "Success"

\* data.get(key, appointment.notes)
NotesAfter(old, reason) == IF reason = NoReason THEN old ELSE reason

(***************************************************************************)
(* Handlers, each executed as one atomic request                           *)
(***************************************************************************)
CreateAppointment(u, d, date, ty) ==
  LET r == CreateResult(u, d, date, ty) IN
  /\ r = "Success" => Len(ledger) < MaxAppts
  /\ ledger' = IF r = "Success" THEN Append(ledger, NewAppointment(u, d, date.ts, ty)) ELSE ledger
  /\ resp' = Response("create", r, IF r = "Success" THEN Len(ledger) + 1 ELSE 0)
  /\ UNCHANGED <<now, doctors, reqs>>

\* variant that deletes the row of a cancelled appointment
CancelAppointment_HardDelete(u, id, reason) ==
  LET r == CancelResult(u, id) IN
  /\ ledger' = IF r = "Success"
               THEN SubSeq(ledger, 1, id - 1) \o SubSeq(ledger, id + 1, Len(ledger))
               ELSE ledger
  /\ resp' = Response("cancel", r, id)
  /\ UNCHANGED <<now, doctors, reqs>>

\* variant that marks the appointment cancelled before the status and
\* cutoff checks are evaluated
CancelAppointment_WritesBeforeChecks(u, id, reason) ==
  LET r == CancelResult(u, id) IN
  /\ ledger' = IF r \in {"Success", "ValidationError"}
               THEN [ledger EXCEPT ![id].status = "cancelled",
                                   ![id].notes = NotesAfter(@, reason)]
               ELSE ledger
  /\ resp' = Response("cancel", r, id)
  /\ UNCHANGED <<now, doctors, reqs>>

CancelAppointment(u, id, reason) ==
  LET r == CancelResult(u, id) IN
  /\ ledger' = IF r = "Success"
               THEN [ledger EXCEPT ![id].status = "cancelled",
                                   ![id].notes = NotesAfter(@, reason)]
               ELSE ledger
  /\ resp' = Response("cancel", r, id)
  /\ UNCHANGED <<now, doctors, reqs>>

\* variant that writes the notes before the conflict query is evaluated
RescheduleAppointment_NotesFirst(u, id, date, reason) ==
  LET r == RescheduleResult(u, id, date) IN
  /\ ledger' = IF r = "Success"
               THEN [ledger EXCEPT ![id].appointment_date = date.ts,
                                   ![id].status = "scheduled",
                                   ![id].notes = NotesAfter(@, reason)]
               ELSE IF r = "Conflict"
               THEN [ledger EXCEPT ![id].notes = NotesAfter(@, reason)]
               ELSE ledger
  /\ resp' = Response("reschedule", r, id)
  /\ UNCHANGED <<now, doctors, reqs>>

RescheduleAppointment(u, id, date, reason) ==
  LET r == RescheduleResult(u, id, date) IN
  /\ ledger' = IF r = "Success"
               THEN [ledger EXCEPT ![id].appointment_date = date.ts,
                                   ![id].status = "scheduled",
                                   ![id].notes = NotesAfter(@, reason)]
               ELSE ledger
  /\ resp' = Response("reschedule", r, id)
  /\ UNCHANGED <<now, doctors, reqs>>

\* variant in which the rollback of the except clause undoes the insert
CreateAppointmentLogFails_RolledBack(u, d, date, ty) ==
  /\ CreateResult(u, d, date, ty) = "Success"
  /\ Len(ledger) < MaxAppts
  /\ resp' = Response("create", "InternalError", Len(ledger) + 1)
  /\ UNCHANGED <<ledger, now, doctors, reqs>>

\* create_appointment when log_user_action raises after db.session.commit():
\* the except clause rolls back the already committed session and answers
\* internal_error
CreateAppointmentLogFails(u, d, date, ty) ==
  /\ CreateResult(u, d, date, ty) = "Success"
  /\ Len(ledger) < MaxAppts
  /\ ledger' = Append(ledger, NewAppointment(u, d, date.ts, ty))
  /\ resp' = Response("create", "InternalError", Len(ledger) + 1)
  /\ UNCHANGED <<now, doctors, reqs>>

\* cancel_appointment when log_user_action raises after the commit
CancelAppointmentLogFails(u, id, reason) ==
  /\ CancelResult(u, id) = "Success"
  /\ ledger' = [ledger EXCEPT ![id].status = "cancelled",
                              ![id].notes = NotesAfter(@, reason)]
  /\ resp' = Response("cancel", "InternalError", id)
  /\ UNCHANGED <<now, doctors, reqs>>

\* reschedule_appointment when log_user_action raises after the commit
RescheduleAppointmentLogFails(u, id, date, reason) ==
  /\ RescheduleResult(u, id, date) = "Success"
  /\ ledger' = [ledger EXCEPT ![id].appointment_date = date.ts,
                              ![id].status = "scheduled",
                              ![id].notes = NotesAfter(@, reason)]
  /\ resp' = Response("reschedule", "InternalError", id)
  /\ UNCHANGED <<now, doctors, reqs>>

\* the doctor's profile update writes consultation_fee as given
UpdateProfile(d, fee) ==
  /\ d \in DOMAIN doctors
  /\ doctors' = [doctors EXCEPT ![d].consultation_fee = Numeric2(fee)]
  /\ resp' = Response("update_profile", "Success", d)
  /\ UNCHANGED <<ledger, now, reqs>>

\* validate_consultation_fee(fee, participation_type)
validate_consultation_fee(fee, participation_type) ==
  /\ fee >= 0
  /\ fee <= MaxFeeMills
  /\ ~(participation_type = "volunteer" /\ fee > 0)
  /\ ~(participation_type = "paid" /\ fee = 0)

\* validate_doctor_participation_data(data)
validate_doctor_participation_data(ptype, fee) ==
  /\ ptype \in {Absent, "volunteer", "paid"}
  /\ fee # FeeAbsent =>
       /\ fee >= 0
       /\ fee <= MaxFeeMills
       /\ ~(ptype = "volunteer" /\ fee > 0)
       /\ ~(ptype = "paid" /\ fee = 0)

\* outcome of update_doctor_participation_settings for doctor d
ParticipationResult(d, ptype, fee) ==
  LET new_type == IF ptype = Absent THEN doctors[d].participation_type ELSE ptype IN
  IF ptype = Absent /\ fee = FeeAbsent THEN "ValidationError"
  ELSE IF ~validate_doctor_participation_data(ptype, fee) THEN "ValidationError"
  ELSE IF /\ ptype = "paid"
          /\ doctors[d].consultation_fee = 0
          /\ (fee = FeeAbsent \/ fee = 0) THEN "ValidationError"
  ELSE IF fee # FeeAbsent /\ ~validate_consultation_fee(fee, new_type) THEN "ValidationError"
  ELSE "Success"

UpdateDoctorParticipationSettings(d, ptype, fee) ==
  LET r == ParticipationResult(d, ptype, fee) IN
  /\ d \in DOMAIN doctors
  /\ doctors' = IF r = "Success"
                THEN [doctors EXCEPT
                        ![d].participation_type = IF ptype = Absent THEN @ ELSE ptype,
                        ![d].consultation_fee = IF fee # FeeAbsent THEN Numeric2(fee)
                                                ELSE IF ptype = "volunteer" THEN 0 ELSE @]
                ELSE doctors
  /\ resp' = Response("participation", r, d)
  /\ UNCHANGED <<ledger, now, reqs>>

SwitchToVolunteer(d) ==
  LET r == IF doctors[d].participation_type = "volunteer" THEN "ValidationError" ELSE "Success" IN
  /\ d \in DOMAIN doctors
  /\ doctors' = IF r = "Success"
                THEN [doctors EXCEPT ![d].participation_type = "volunteer",
                                     ![d].consultation_fee = 0]
                ELSE doctors
  /\ resp' = Response("switch_to_volunteer", r, d)
  /\ UNCHANGED <<ledger, now, reqs>>

SwitchToPaid(d, fee) ==
  LET r == IF doctors[d].participation_type = "paid" THEN "ValidationError"
           ELSE IF fee = FeeAbsent THEN "ValidationError"
           ELSE IF ~validate_consultation_fee(fee, "paid") THEN "ValidationError"
           ELSE "Success" IN
  /\ d \in DOMAIN doctors
  /\ doctors' = IF r = "Success"
                THEN [doctors EXCEPT ![d].participation_type = "paid",
                                     ![d].consultation_fee = Numeric2(fee)]
                ELSE doctors
  /\ resp' = Response("switch_to_paid", r, d)
  /\ UNCHANGED <<ledger, now, reqs>>

\* the doctor's profile update writes available_hours as given
UpdateAvailableHours(d, hours) ==
  /\ d \in DOMAIN doctors
  /\ doctors' = [doctors EXCEPT ![d].configured = TRUE, ![d].available_hours = hours]
  /\ resp' = Response("update_profile", "Success", d)
  /\ UNCHANGED <<ledger, now, reqs>>

\* admin: user.is_active = not user.is_active, for the user of doctor d
ToggleUserStatus(d) ==
  /\ d \in DOMAIN doctors
  /\ doctors' = [doctors EXCEPT ![d].is_active = ~@]
  /\ resp' = Response("toggle_status", "Success", d)
  /\ UNCHANGED <<ledger, now, reqs>>

\* admin: an approved verification sets doctor.is_verified
VerifyDoctor(d) ==
  /\ d \in DOMAIN doctors
  /\ doctors' = [doctors EXCEPT ![d].is_verified = TRUE]
  /\ resp' = Response("verify_doctor", "Success", d)
  /\ UNCHANGED <<ledger, now, reqs>>

\* status transitions made by the doctor or the system (section 4.3)
NextStatus(s) ==
  CASE s = "scheduled" -> {"confirmed", "no_show"}
    [] s = "confirmed" -> {"in_progress", "no_show"}
    [] s = "in_progress" -> {"completed"}
    [] OTHER -> {}

StatusTransition(id, s) ==
  /\ id \in DOMAIN ledger
  /\ s \in NextStatus(ledger[id].status)
  /\ ledger' = [ledger EXCEPT ![id].status = s]
  /\ resp' = NoResp
  /\ UNCHANGED <<now, doctors, reqs>>

\* the wall clock advances between requests
Tick(n) ==
  /\ n > now
  /\ now' = n
  /\ resp' = NoResp
  /\ UNCHANGED <<ledger, doctors, reqs>>

DateInputs(ts) == {[fmt |-> "iso", ts |-> t] : t \in ts} \cup {[fmt |-> "bad", ts |-> 0], [fmt |-> "missing", ts |-> 0]}


(***************************************************************************)
(* get_doctor_availability                                                 *)
(***************************************************************************)
Today == now \div DaySecs

\* strftime('%A').lower() of a date
DayName(day) == DayNames[(day % 7) + 1]

\* strftime('%H:%M') of a datetime: the minute of the day, seconds dropped
HHMM(t) == (t % DaySecs) \div MinuteSecs

\* doctor.available_hours or {default schedule}
EffectiveHours(d) ==
  IF doctors[d].configured /\ DOMAIN doctors[d].available_hours # {}
  THEN doctors[d].available_hours
  ELSE DefaultHours

\* variant that tests the loop condition once, an if in place of the while
LoopIterations_OnePass(current_time, end_datetime) ==
  IF current_time < end_datetime THEN <<current_time>> ELSE <<>>

\* the values of current_time at the start of each iteration of the while loop
RECURSIVE LoopIterations(_, _)
LoopIterations(current_time, end_datetime) ==
  IF current_time < end_datetime
  THEN <<current_time>> \o LoopIterations(current_time + SlotSecs, end_datetime)
  ELSE <<>>

\* the while loop that walks from start to end in 30-minute steps
RECURSIVE GenerateSlots(_, _)
GenerateSlots(current_time, end_datetime) ==
  IF current_time < end_datetime
  THEN LET slot_end == current_time + SlotSecs IN
       (IF slot_end <= end_datetime
        THEN <<[start |-> HHMM(current_time), end |-> HHMM(slot_end), datetime |-> current_time]>>
        ELSE <<>>) \o GenerateSlots(slot_end, end_datetime)
  ELSE <<>>

\* strftime('%H:%M') of the non-terminal appointments of the doctor on the date
BookedTimes(d, target_date, start_time) ==
  {HHMM(ledger[i].appointment_date) :
     i \in {j \in DOMAIN ledger :
              /\ ledger[j].doctor_id = d
              /\ ledger[j].appointment_date >= target_date * DaySecs + start_time * MinuteSecs
              /\ ledger[j].appointment_date < (target_date + 1) * DaySecs
              /\ ledger[j].status \in ActiveStatuses}}

\* variant that leaves the booked slots out of the list
AnnotatedSlots_OmitsBooked(d, target_date) ==
  LET day_schedule == EffectiveHours(d)[DayName(target_date)]
      slots == GenerateSlots(target_date * DaySecs + day_schedule.start * MinuteSecs,
                             target_date * DaySecs + day_schedule.end * MinuteSecs)
      booked_times == BookedTimes(d, target_date, day_schedule.start)
      free == SelectSeq(slots, LAMBDA x : x.start \notin booked_times)
  IN [k \in DOMAIN free |->
        [start |-> free[k].start, end |-> free[k].end, datetime |-> free[k].datetime,
         available |-> TRUE]]

AnnotatedSlots(d, target_date) ==
  LET day_schedule == EffectiveHours(d)[DayName(target_date)]
      slots == GenerateSlots(target_date * DaySecs + day_schedule.start * MinuteSecs,
                             target_date * DaySecs + day_schedule.end * MinuteSecs)
      booked_times == BookedTimes(d, target_date, day_schedule.start)
  IN [k \in DOMAIN slots |->
        [start |-> slots[k].start, end |-> slots[k].end, datetime |-> slots[k].datetime,
         available |-> slots[k].start \notin booked_times]]

\* variant whose date check also refuses today
AvailabilityResult_RejectsToday(d, date) ==
  LET target_date == IF date.fmt = "missing" THEN Today ELSE date.day IN
  IF ~FindDoctor(d) THEN [kind |-> "InternalError", slots |-> <<>>]
  ELSE IF date.fmt = "bad" THEN [kind |-> "ValidationError", slots |-> <<>>]
  ELSE IF target_date <= Today THEN [kind |-> "ValidationError", slots |-> <<>>]
  ELSE IF DayName(target_date) \notin DOMAIN EffectiveHours(d) THEN [kind |-> "Success", slots |-> <<>>]
  ELSE [kind |-> "Success", slots |-> AnnotatedSlots(d, target_date)]

\* a date input is [fmt |-> "iso" | "bad" | "missing", day |-> day number]
AvailabilityResult(d, date) ==
  LET target_date == IF date.fmt = "missing" THEN Today ELSE date.day IN
  IF ~FindDoctor(d) THEN [kind |-> "InternalError", slots |-> <<>>]
  ELSE IF date.fmt = "bad" THEN [kind |-> "ValidationError", slots |-> <<>>]
  ELSE IF target_date < Today THEN [kind |-> "ValidationError", slots |-> <<>>]
  ELSE IF DayName(target_date) \notin DOMAIN EffectiveHours(d) THEN [kind |-> "Success", slots |-> <<>>]
  ELSE [kind |-> "Success", slots |-> AnnotatedSlots(d, target_date)]

GetDoctorAvailability(d, date) ==
  LET r == AvailabilityResult(d, date) IN
  /\ resp' = [op |-> "availability", kind |-> r.kind, id |-> d, slots |-> r.slots]
  /\ UNCHANGED <<ledger, now, doctors, reqs>>

DayInputs(days) == {[fmt |-> "iso", day |-> x] : x \in days} \cup {[fmt |-> "bad", day |-> 0], [fmt |-> "missing", day |-> 0]}

(***************************************************************************)
(* create_appointment as two steps of a request: the conflict query, then  *)
(* db.session.add and db.session.commit                                    *)
(***************************************************************************)
IdleReq == [pc |-> "idle", kind |-> "none", appointment |-> <<>>]

ReqQuery(p, u, d, date, ty) ==
  LET r == CreateResult(u, d, date, ty) IN
  /\ p \in DOMAIN reqs
  /\ reqs[p].pc = "idle"
  /\ reqs' = [reqs EXCEPT ![p] =
                IF r = "Success"
                THEN [pc |-> "queried", kind |-> "none", appointment |-> <<NewAppointment(u, d, date.ts, ty)>>]
                ELSE [pc |-> "done", kind |-> r, appointment |-> <<[doctor_id |-> d, appointment_date |-> date.ts]>>]]
  /\ UNCHANGED <<ledger, now, doctors, resp>>

ReqCommit(p) ==
  /\ p \in DOMAIN reqs
  /\ reqs[p].pc = "queried"
  /\ ledger' = Append(ledger, reqs[p].appointment[1])
  /\ reqs' = [reqs EXCEPT ![p].pc = "done", ![p].kind = "Success"]
  /\ UNCHANGED <<now, doctors, resp>>

\* reschedule_appointment as two steps of a request: the checks up to the
\* conflict query, then the assignments and db.session.commit
RescheduleQuery(p, u, id, date) ==
  LET r == RescheduleResult(u, id, date) IN
  /\ p \in DOMAIN reqs
  /\ reqs[p].pc = "idle"
  /\ reqs' = [reqs EXCEPT ![p] =
                IF r = "Success"
                THEN [pc |-> "moving", kind |-> "none", appointment |-> <<[id |-> id, appointment_date |-> date.ts]>>]
                ELSE [pc |-> "done", kind |-> r, appointment |-> <<>>]]
  /\ UNCHANGED <<ledger, now, doctors, resp>>

RescheduleCommit(p) ==
  /\ p \in DOMAIN reqs
  /\ reqs[p].pc = "moving"
  /\ ledger' = [ledger EXCEPT ![reqs[p].appointment[1].id].appointment_date = reqs[p].appointment[1].appointment_date,
                              ![reqs[p].appointment[1].id].status = "scheduled"]
  /\ reqs' = [reqs EXCEPT ![p].pc = "done", ![p].kind = "Success"]
  /\ UNCHANGED <<now, doctors, resp>>

(***************************************************************************)
(* Specifications                                                          *)
(***************************************************************************)
Init ==
  /\ ledger = <<>>
  /\ now = 115140
  /\ doctors = InitDoctors
  /\ resp = NoResp
  /\ reqs = [p \in 1..MaxReqs |-> IdleReq]

\* booking, cancelling and rescheduling by one patient with two doctors
Next ==
  \/ \E d \in {1, 2}, date \in DateInputs(Times), ty \in {"video", "fax"} : CreateAppointment(1, d, date, ty)
  \/ \E id \in 1..MaxAppts : CancelAppointment(1, id, NoReason)
  \/ \E id \in 1..MaxAppts, date \in DateInputs(Times) : RescheduleAppointment(1, id, date, NoReason)
  \/ \E id \in 1..MaxAppts, s \in Statuses : StatusTransition(id, s)
  \/ \E n \in Nows : Tick(n)

Spec == Init /\ [][Next]_vars

\* the notes written by cancel and reschedule, one doctor
NextNotes ==
  \/ \E date \in DateInputs(Times) : CreateAppointment(1, 1, date, "video")
  \/ \E id \in 1..MaxAppts, reason \in Reasons : CancelAppointment(1, id, reason)
  \/ \E id \in 1..MaxAppts, date \in DateInputs(Times), reason \in Reasons : RescheduleAppointment(1, id, date, reason)
  \/ \E id \in 1..MaxAppts, s \in Statuses : StatusTransition(id, s)
  \/ \E n \in Nows : Tick(n)

SpecNotes == Init /\ [][NextNotes]_vars

\* the cancellation cutoff, the clock passing 61, 60 and 59 minutes before 09:00
NextCutoff ==
  \/ \E date \in DateInputs(Times) : CreateAppointment(1, 1, date, "video")
  \/ \E id \in 1..MaxAppts : CancelAppointment(1, id, NoReason)
  \/ \E id \in 1..MaxAppts, s \in Statuses : StatusTransition(id, s)
  \/ \E n \in CutoffNows : Tick(n)

SpecCutoff == Init /\ [][NextCutoff]_vars

\* consultation fees of the doctors changing between bookings
NextFee ==
  \/ \E d \in {1, 2}, date \in DateInputs(Times) : CreateAppointment(1, d, date, "video")
  \/ \E id \in 1..MaxAppts : CancelAppointment(1, id, NoReason)
  \/ \E fee \in {0, 50005} : UpdateProfile(1, fee)

SpecFee == Init /\ [][NextFee]_vars

\* availability queries between bookings
NextAvail ==
  \/ \E date \in DateInputs(AvailTimes) : CreateAppointment(1, 1, date, "video")
  \/ \E id \in 1..MaxAppts : CancelAppointment(1, id, NoReason)
  \/ \E id \in 1..MaxAppts, s \in Statuses : StatusTransition(id, s)
  \/ \E d \in {1, 2, 3}, date \in DayInputs({0, 1, 2}) : GetDoctorAvailability(d, date)

SpecAvail == Init /\ [][NextAvail]_vars

\* doctors being verified, deactivated and reactivated between requests;
\* doctor 3 starts unverified and no doctor has id 4
NextDoctor ==
  \/ \E d \in {0, 1, 3, 4}, date \in DateInputs(Times), ty \in {"video", "fax"} : CreateAppointment(1, d, date, ty)
  \/ \E d \in {1, 3, 4}, date \in DayInputs({0, 1}) : GetDoctorAvailability(d, date)
  \/ \E d \in {1, 3} : ToggleUserStatus(d)
  \/ VerifyDoctor(3)
  \/ \E n \in LateNows : Tick(n)

SpecDoctor == Init /\ [][NextDoctor]_vars

\* two patients and a doctor account calling the three handlers on the
\* appointments of one doctor
NextOwner ==
  \/ \E u \in UserIds, date \in DateInputs(Times) : CreateAppointment(u, 1, date, "video")
  \/ \E u \in UserIds, id \in 1..MaxAppts : CancelAppointment(u, id, NoReason)
  \/ \E u \in UserIds, id \in 1..MaxAppts, date \in DateInputs(Times) : RescheduleAppointment(u, id, date, NoReason)
  \/ \E id \in 1..MaxAppts, s \in Statuses : StatusTransition(id, s)
  \/ \E n \in Nows : Tick(n)

SpecOwner == Init /\ [][NextOwner]_vars

\* a doctor changing the weekly schedule between availability queries, the
\* clock passing from Monday to Tuesday and Friday; days 0 to 7 run from a
\* Sunday to the next Sunday
NextSched ==
  \/ \E hours \in HourMaps : UpdateAvailableHours(1, hours)
  \/ \E d \in {1, 2}, date \in DayInputs(0..7) : GetDoctorAvailability(d, date)
  \/ \E date \in DateInputs(Times) : CreateAppointment(1, 1, date, "video")
  \/ \E n \in DayNows : Tick(n)

SpecSched == Init /\ [][NextSched]_vars

\* the three handlers with an audit logger that may raise after the commit
NextLog ==
  \/ \E d \in {1, 2}, date \in DateInputs(Times) : CreateAppointment(1, d, date, "video")
  \/ \E d \in {1, 2}, date \in DateInputs(Times) : CreateAppointmentLogFails(1, d, date, "video")
  \/ \E id \in 1..MaxAppts, reason \in Reasons : CancelAppointment(1, id, reason)
  \/ \E id \in 1..MaxAppts, reason \in Reasons : CancelAppointmentLogFails(1, id, reason)
  \/ \E id \in 1..MaxAppts, date \in DateInputs(Times) : RescheduleAppointment(1, id, date, NoReason)
  \/ \E id \in 1..MaxAppts, date \in DateInputs(Times) : RescheduleAppointmentLogFails(1, id, date, NoReason)
  \/ \E n \in Nows : Tick(n)

SpecLog == Init /\ [][NextLog]_vars

\* reschedule requests of doctor 1's appointments running concurrently with
\* each other and with create requests, a create request running as a whole
\* between the conflict query and the commit of a reschedule
NextMove ==
  \/ \E t \in AvailTimes : CreateAppointment(1, 1, [fmt |-> "iso", ts |-> t], "video")
  \/ \E p \in 1..MaxReqs, id \in 1..MaxAppts, t \in AvailTimes : RescheduleQuery(p, 1, id, [fmt |-> "iso", ts |-> t])
  \/ \E p \in 1..MaxReqs : RescheduleCommit(p)

SpecMove == Init /\ [][NextMove]_vars

\* cancelling and rescheduling around the cutoff, the clock passing 61, 60
\* and 59 minutes before Monday 09:00
NextLead ==
  \/ \E t \in AvailTimes : CreateAppointment(1, 1, [fmt |-> "iso", ts |-> t], "video")
  \/ \E id \in 1..MaxAppts : CancelAppointment(1, id, NoReason)
  \/ \E id \in 1..MaxAppts, t \in AvailTimes : RescheduleAppointment(1, id, [fmt |-> "iso", ts |-> t], NoReason)
  \/ \E n \in CutoffNows : Tick(n)

SpecLead == Init /\ [][NextLead]_vars

\* doctors 1 and 2 changing their fee and their participation type
NextPart ==
  \/ \E d \in {1, 2}, fee \in {0, 50005} : UpdateProfile(d, fee)
  \/ \E d \in {1, 2}, ptype \in {Absent, "volunteer", "paid"}, fee \in FeeInputs \cup {FeeAbsent} :
       UpdateDoctorParticipationSettings(d, ptype, fee)
  \/ \E d \in {1, 2} : SwitchToVolunteer(d)
  \/ \E d \in {1, 2}, fee \in FeeInputs \cup {FeeAbsent} : SwitchToPaid(d, fee)

SpecPart == Init /\ [][NextPart]_vars

\* concurrent create_appointment requests
NextConc ==
  \/ \E p \in 1..MaxReqs, u \in {1, 2}, d \in {1, 2}, date \in DateInputs(Times) : ReqQuery(p, u, d, date, "video")
  \/ \E p \in 1..MaxReqs : ReqCommit(p)

SpecConc == Init /\ [][NextConc]_vars

(***************************************************************************)
(* Properties                                                              *)
(***************************************************************************)
\* no two non-terminal appointments of one doctor share an appointment_date
NoDoubleBooking(l) ==
  \A i, j \in DOMAIN l :
    (/\ i # j
     /\ l[i].doctor_id = l[j].doctor_id
     /\ l[i].status \in ActiveStatuses
     /\ l[j].status \in ActiveStatuses) => l[i].appointment_date # l[j].appointment_date

\* C1: under any interleaving of the query and commit steps of concurrent
\* create_appointment requests, no (doctor, appointment_date) holds two
\* non-terminal appointments, and of the requests for one free slot exactly
\* one succeeds while the others return Conflict.
C1_ConcurrentCreateOneWinner ==
  /\ NoDoubleBooking(ledger)
  /\ \A p, q \in DOMAIN reqs :
       (/\ p # q
        /\ reqs[p].pc = "done"
        /\ reqs[q].pc = "done"
        /\ reqs[p].appointment[1].doctor_id = reqs[q].appointment[1].doctor_id
        /\ reqs[p].appointment[1].appointment_date = reqs[q].appointment[1].appointment_date
        /\ reqs[p].kind = "Success") => reqs[q].kind = "Conflict"

\* C2: after any sequence of atomic create, cancel and reschedule calls no
\* two appointments of the same doctor with status scheduled, confirmed or
\* in_progress share the same appointment_date.
C2_NoDoubleBookingSequential == NoDoubleBooking(ledger)

\* a reschedule was refused because another non-terminal appointment, one
\* that is no longer in status scheduled, holds the requested slot
C2_Witness ==
  /\ resp.op = "reschedule"
  /\ resp.kind = "Conflict"
  /\ \E i \in DOMAIN ledger :
       /\ i # resp.id
       /\ ledger[i].doctor_id = ledger[resp.id].doctor_id
       /\ ledger[i].status \in {"confirmed", "in_progress"}
       /\ ledger[resp.id].status \in ActiveStatuses

\* a well-formed ISO timestamp as request input
Iso(t) == [fmt |-> "iso", ts |-> t]

\* the ledger holds a non-terminal appointment of doctor d at exactly t
HasActiveAt(d, t) ==
  \E i \in DOMAIN ledger :
    /\ ledger[i].doctor_id = d
    /\ ledger[i].appointment_date = t
    /\ ledger[i].status \in {"scheduled", "confirmed", "in_progress"}

\* a non-terminal appointment other than id, of the doctor of id, sits at t
HasOtherActiveAt(id, t) ==
  \E i \in DOMAIN ledger :
    /\ i # id
    /\ ledger[i].doctor_id = ledger[id].doctor_id
    /\ ledger[i].appointment_date = t
    /\ ledger[i].status \in {"scheduled", "confirmed", "in_progress"}

\* C3 as stated: create_appointment for (doctor, timestamp) returns Conflict
\* whenever the ledger holds a non-terminal appointment of that doctor at
\* exactly that timestamp.
C3_ConflictWheneverOccupied ==
  [][\A d \in {1, 2}, t \in Times :
       (HasActiveAt(d, t) /\ CreateAppointment(1, d, Iso(t), "video")) =>
         (resp'.kind = "Conflict" /\ ledger' = ledger)]_vars

\* C3 amended: a create_appointment request of a patient for an available
\* doctor whose timestamp is strictly in the future returns Conflict when
\* the ledger holds a non-terminal appointment of that doctor at exactly
\* that timestamp; whenever such an appointment exists the request does not
\* succeed, a failed request adds no appointment, and without such an
\* appointment (only cancelled, completed or no_show ones at the timestamp)
\* the request does not return Conflict.
C3_ConflictOnOccupiedFutureSlot ==
  /\ [](\A d \in {1, 2}, t \in Times :
          LET r == CreateResult(1, d, Iso(t), "video") IN
          /\ (HasActiveAt(d, t) /\ t > now) => r = "Conflict"
          /\ HasActiveAt(d, t) => r # "Success"
          /\ ~HasActiveAt(d, t) => r # "Conflict")
  /\ [][(resp'.op = "create" /\ resp'.kind # "Success") => ledger' = ledger]_vars

\* create_appointment was refused with Conflict while every non-terminal
\* appointment in the ledger is in_progress and a terminal one exists
C3_Witness ==
  /\ resp.op = "create"
  /\ resp.kind = "Conflict"
  /\ \E i \in DOMAIN ledger : ledger[i].status = "in_progress"
  /\ \A i \in DOMAIN ledger : ledger[i].status \notin {"scheduled", "confirmed"}

\* C4 as stated: rescheduling A to T2 while a different non-terminal
\* appointment B of the same doctor is at T2 fails with Conflict and leaves A
\* unchanged.
C4_RescheduleOntoOccupiedIsConflict ==
  [][\A id \in DOMAIN ledger, t \in Times, reason \in Reasons :
       (/\ ledger[id].appointment_date # t
        /\ HasOtherActiveAt(id, t)
        /\ RescheduleAppointment(1, id, Iso(t), reason)) =>
         (resp'.kind = "Conflict" /\ ledger'[id] = ledger[id])]_vars

\* C4 amended: rescheduling A, whose status is scheduled, confirmed or
\* no_show, to a T2 strictly in the future at which a different non-terminal
\* appointment B of the same doctor sits fails with Conflict; whenever such a
\* B exists the reschedule does not succeed, and a failed reschedule leaves
\* the appointment_date, status and notes of A (the whole ledger) unchanged.
C4_RescheduleOntoOccupiedFails ==
  /\ [](\A id \in DOMAIN ledger, t \in Times :
          LET r == RescheduleResult(1, id, Iso(t)) IN
          /\ (/\ HasOtherActiveAt(id, t)
              /\ ledger[id].status \in {"scheduled", "confirmed", "no_show"}
              /\ t > now) => r = "Conflict"
          /\ HasOtherActiveAt(id, t) => r # "Success")
  /\ [][(resp'.op = "reschedule" /\ resp'.kind # "Success") => ledger' = ledger]_vars

\* a reschedule of a confirmed appointment was refused with Conflict because
\* of another appointment that is in_progress
C4_Witness ==
  /\ resp.op = "reschedule"
  /\ resp.kind = "Conflict"
  /\ ledger[resp.id].status = "confirmed"
  /\ \E i \in DOMAIN ledger :
       /\ i # resp.id
       /\ ledger[i].status = "in_progress"
       /\ ledger[i].appointment_date # ledger[resp.id].appointment_date

C6_TerminalStatesAbsorbing ==
  [][\A i \in DOMAIN ledger :
       ledger[i].status \in {"completed", "cancelled", "no_show"} =>
         /\ ledger'[i].status = ledger[i].status
         /\ ledger'[i].appointment_date = ledger[i].appointment_date]_vars

\* C7: cancel_appointment moves an appointment to cancelled only from
\* scheduled or confirmed; on in_progress, completed, cancelled and no_show
\* it fails and leaves the status unchanged.
C7_CancelOnlyFromScheduledOrConfirmed ==
  [][(resp'.op = "cancel" /\ resp'.id \in DOMAIN ledger) =>
       IF ledger[resp'.id].status \in {"scheduled", "confirmed"}
       THEN resp'.kind = "Success" => ledger'[resp'.id].status = "cancelled"
       ELSE /\ resp'.kind # "Success"
            /\ ledger'[resp'.id].status = ledger[resp'.id].status]_vars

\* C8: a slot returned by get_availability is unavailable if and only if the
\* ledger holds a non-terminal appointment of that doctor whose
\* appointment_date is the slot's start on that date.
C8_SlotUnavailableIffBooked ==
  (resp.op = "availability" /\ resp.kind = "Success") =>
    \A k \in DOMAIN resp.slots :
      (~resp.slots[k].available) <=> HasActiveAt(resp.id, resp.slots[k].datetime)

\* C9: right after cancel_appointment succeeded on the appointment occupying
\* (doctor, T), that is the one non-terminal appointment of the doctor at T,
\* with T strictly in the future, create_appointment for the same
\* (doctor, T) succeeds.
C9_CancelFreesSlot ==
  [][(/\ resp'.op = "cancel"
      /\ resp'.kind = "Success"
      /\ ledger[resp'.id].status \in {"scheduled", "confirmed", "in_progress"}
      /\ ~HasOtherActiveAt(resp'.id, ledger[resp'.id].appointment_date)
      /\ ledger[resp'.id].appointment_date > now') =>
        (CreateResult(1, ledger[resp.id].doctor_id,
                      Iso(ledger[resp.id].appointment_date), "video") = "Success")']_vars

\* an appointment was created at the (doctor, timestamp) of a cancelled one
C9_Witness ==
  /\ resp.op = "create"
  /\ resp.kind = "Success"
  /\ \E i \in DOMAIN ledger :
       /\ i # resp.id
       /\ ledger[i].status = "cancelled"
       /\ ledger[i].doctor_id = ledger[resp.id].doctor_id
       /\ ledger[i].appointment_date = ledger[resp.id].appointment_date

\* C10: a successful create_appointment adds exactly one appointment, in
\* status scheduled and with the doctor's consultation_fee of that moment;
\* a change of a doctor's consultation_fee changes no appointment.
C10_FeeCopiedAtCreation ==
  [][/\ (resp'.op = "create" /\ resp'.kind = "Success") =>
          /\ Len(ledger') = Len(ledger) + 1
          /\ SubSeq(ledger', 1, Len(ledger)) = ledger
          /\ ledger'[Len(ledger')].status = "scheduled"
          /\ ledger'[Len(ledger')].consultation_fee
               = doctors[ledger'[Len(ledger')].doctor_id].consultation_fee
     /\ (resp'.op = "create" /\ resp'.kind # "Success") => ledger' = ledger
     /\ doctors' # doctors => ledger' = ledger]_vars

\* the doctor's fee was changed after an appointment had copied the old one
C10_Witness ==
  /\ resp.op = "update_profile"
  /\ \E i \in DOMAIN ledger :
       /\ ledger[i].doctor_id = resp.id
       /\ ledger[i].consultation_fee = 5000
       /\ doctors[resp.id].consultation_fee = 5001

\* C11: create_appointment succeeds only if the doctor exists, is verified
\* and the doctor's user is active, and the requested timestamp is strictly
\* later than now; a request of a patient whose timestamp is equal to or
\* earlier than now is rejected with ValidationError and writes nothing.
C11_CreateNeedsAvailableDoctorAndFuture ==
  /\ [](\A d \in {0, 1, 3, 4}, t \in Times, ty \in {"video", "fax"} :
          LET r == CreateResult(1, d, Iso(t), ty) IN
          /\ r = "Success" => /\ d \in DOMAIN doctors
                              /\ doctors[d].is_verified
                              /\ doctors[d].is_active
                              /\ t > now
          /\ t <= now => r = "ValidationError")
  /\ [][(resp'.op = "create" /\ resp'.kind = "Success") =>
          LET a == ledger'[resp'.id] IN
          /\ Len(ledger') = Len(ledger) + 1
          /\ a.doctor_id \in DOMAIN doctors
          /\ doctors[a.doctor_id].is_verified
          /\ doctors[a.doctor_id].is_active
          /\ a.appointment_date > now]_vars
  /\ [][(resp'.op = "create" /\ resp'.kind = "ValidationError") => ledger' = ledger]_vars

\* a create was rejected with ValidationError at the very instant of the
\* requested slot, for which every well-formed request is refused, while the
\* verified doctor 3 is deactivated and doctor 1 is available
C11_Witness ==
  /\ resp.op = "create"
  /\ resp.kind = "ValidationError"
  /\ now = 118800
  /\ FindDoctor(1)
  /\ CreateResult(1, 1, Iso(now), "video") = "ValidationError"
  /\ doctors[3].is_verified
  /\ ~doctors[3].is_active
  /\ ledger # <<>>

\* C12: a successful reschedule_appointment sets the appointment_date to
\* new_timestamp and the status to scheduled; right afterwards the
\* conflict check of create_appointment no longer blocks the old
\* (doctor, timestamp) and a create_appointment for the new
\* (doctor, timestamp) returns Conflict.
C12_RescheduleMovesOccupancy ==
  [][\A id \in DOMAIN ledger, t \in Times, old \in Times :
       (/\ RescheduleAppointment(1, id, Iso(t), NoReason)
        /\ resp'.kind = "Success"
        /\ ledger[id].appointment_date = old
        /\ old # t) =>
         /\ ledger'[id].appointment_date = t
         /\ ledger'[id].status = "scheduled"
         /\ (CreateResult(1, ledger[id].doctor_id, Iso(old), "video") # "Conflict")'
         /\ (CreateResult(1, ledger[id].doctor_id, Iso(t), "video") = "Conflict")']_vars

\* C13: the conflict check of reschedule_appointment excludes the
\* appointment being moved.  A reschedule returns Conflict exactly when it
\* reaches the conflict check (status not completed, cancelled or
\* in_progress, new_timestamp strictly in the future) and another
\* non-terminal appointment of the same doctor sits at new_timestamp; a
\* reschedule that reaches the check with the appointment itself as the only
\* non-terminal appointment of the doctor at new_timestamp succeeds.
C13_RescheduleConflictExcludesSelf ==
  [](\A id \in DOMAIN ledger, t \in Times :
       LET r == RescheduleResult(1, id, Iso(t))
           reaches_check == /\ ledger[id].status \notin {"completed", "cancelled", "in_progress"}
                            /\ t > now
       IN /\ r = "Conflict" <=> (reaches_check /\ HasOtherActiveAt(id, t))
          /\ (/\ reaches_check
              /\ ledger[id].appointment_date = t
              /\ ledger[id].status \in {"scheduled", "confirmed"}
              /\ ~HasOtherActiveAt(id, t)) => r = "Success")

\* a reschedule succeeded on an appointment that may be moved onto its own
\* timestamp, while moving it onto the timestamp of another non-terminal
\* appointment of the doctor returns Conflict
C13_Witness ==
  /\ resp.op = "reschedule"
  /\ resp.kind = "Success"
  /\ ledger[resp.id].appointment_date > now
  /\ RescheduleResult(1, resp.id, Iso(ledger[resp.id].appointment_date)) = "Success"
  /\ \E i \in DOMAIN ledger :
       /\ i # resp.id
       /\ ledger[i].doctor_id = ledger[resp.id].doctor_id
       /\ ledger[i].status = "confirmed"
       /\ RescheduleResult(1, resp.id, Iso(ledger[i].appointment_date)) = "Conflict"

\* C14: every create_appointment, cancel_appointment or
\* reschedule_appointment call that fails with ValidationError, NotFound,
\* Conflict or Forbidden leaves the whole ledger unchanged.
C14_FailedCallLeavesLedger ==
  [][(/\ resp'.op \in {"create", "cancel", "reschedule"}
      /\ resp'.kind \in {"ValidationError", "NotFound", "Conflict", "Forbidden"}) =>
        ledger' = ledger]_vars

\* a cancel was refused with ValidationError inside the cutoff on a confirmed
\* appointment, which is still confirmed, next to an appointment of the
\* other patient
C14_Witness ==
  /\ resp.op = "cancel"
  /\ resp.kind = "ValidationError"
  /\ ledger[resp.id].status = "confirmed"
  /\ ledger[resp.id].appointment_date <= now + CutoffSecs
  /\ \E i \in DOMAIN ledger : ledger[i].patient_id # ledger[resp.id].patient_id

\* the caller u is not a patient, or is a patient other than the one of
\* appointment id
NotOwner(u, id) ==
  \/ user_type(u) # "patient"
  \/ ledger[id].patient_id # patient_profile_id(u)

\* C15: cancel_appointment and reschedule_appointment invoked on an existing
\* appointment by a patient who is not the appointment's patient, or by a
\* caller who is not a patient, return Forbidden and leave the appointment
\* unchanged, whatever its status and timestamp.
C15_NonOwnerForbidden ==
  /\ [](\A u \in UserIds, id \in DOMAIN ledger :
          NotOwner(u, id) =>
            /\ CancelResult(u, id) = "Forbidden"
            /\ \A date \in DateInputs(Times) : RescheduleResult(u, id, date) = "Forbidden")
  /\ [][(resp'.op \in {"cancel", "reschedule"} /\ resp'.kind = "Forbidden") =>
          ledger' = ledger]_vars

\* a call on a completed appointment whose time has passed was answered
\* Forbidden while the ledger also holds an appointment of the other patient,
\* who is a patient but not the owner
C15_Witness ==
  /\ resp.op \in {"cancel", "reschedule"}
  /\ resp.kind = "Forbidden"
  /\ resp.id \in DOMAIN ledger
  /\ ledger[resp.id].status = "completed"
  /\ ledger[resp.id].appointment_date <= now
  /\ \E i \in DOMAIN ledger :
       /\ ledger[i].patient_id # ledger[resp.id].patient_id
       /\ NotOwner(ledger[i].patient_id, resp.id)

\* an availability request for a well-formed date
IsoDay(day) == [fmt |-> "iso", day |-> day]

\* C16: for a weekday present in the schedule with start < end, slot
\* generation returns exactly floor((end - start) / 30 minutes) slots; the
\* i-th slot (i from 0) starts at start + 30*i minutes and ends 30 minutes
\* later, the slots are ascending, contiguous and non-overlapping, no slot
\* ends after the day's end, and a trailing remainder shorter than 30
\* minutes produces no slot.
C16_SlotsTileTheDay ==
  [](\A d \in {1, 2}, day \in 0..7 :
       LET r == AvailabilityResult(d, IsoDay(day))
           schedule == IF doctors[d].configured /\ DOMAIN doctors[d].available_hours # {}
                       THEN doctors[d].available_hours
                       ELSE DefaultHours
       IN (/\ day >= now \div 86400
           /\ DayNames[(day % 7) + 1] \in DOMAIN schedule
           /\ schedule[DayNames[(day % 7) + 1]].start < schedule[DayNames[(day % 7) + 1]].end) =>
            LET start == schedule[DayNames[(day % 7) + 1]].start
                end == schedule[DayNames[(day % 7) + 1]].end
            IN /\ r.kind = "Success"
               /\ Len(r.slots) = (end - start) \div 30
               /\ \A k \in DOMAIN r.slots :
                    /\ r.slots[k].start = start + 30 * (k - 1)
                    /\ r.slots[k].end = r.slots[k].start + 30
                    /\ r.slots[k].end <= end
                    /\ r.slots[k].datetime = day * 86400 + r.slots[k].start * 60
                    /\ k > 1 => r.slots[k].start = r.slots[k - 1].end
               /\ end - (start + 30 * Len(r.slots)) < 30)

\* the schedule of Monday is 09:15 to 10:30 and the query returned the two
\* slots 09:15-09:45 and 09:45-10:15, the remaining 15 minutes giving none
C16_Witness ==
  /\ resp.op = "availability"
  /\ resp.kind = "Success"
  /\ resp.id = 1
  /\ doctors[1].available_hours = [x \in {"monday", "friday"} |->
                                     IF x = "monday" THEN [start |-> 555, end |-> 630]
                                                     ELSE [start |-> 540, end |-> 600]]
  /\ Len(resp.slots) = 2
  /\ resp.slots[1].start = 555
  /\ resp.slots[2].end = 615
  /\ resp.slots[1].datetime = 119700

\* C17: if the weekday name of the requested date is absent from the
\* weekly schedule the doctor has configured, the availability query
\* succeeds with an empty slot sequence; this holds for every configured
\* mapping, including one that lists no days at all.
C17_AbsentWeekdayGivesNoSlots ==
  [](\A day \in 0..7 :
       LET r == AvailabilityResult(1, IsoDay(day)) IN
       (/\ doctors[1].configured
        /\ day >= now \div 86400
        /\ DayNames[(day % 7) + 1] \notin DOMAIN doctors[1].available_hours) =>
          (r.kind = "Success" /\ r.slots = <<>>))

\* C18: for a doctor who has not configured a schedule the availability
\* query uses the default schedule: a date falling on Sunday, Monday,
\* Tuesday, Wednesday or Thursday yields the sixteen 30-minute slots from
\* 09:00 to 17:00, and a date falling on Friday or Saturday yields an empty
\* slot list.
C18_DefaultSchedule ==
  [](\A day \in 0..7 :
       LET r == AvailabilityResult(2, IsoDay(day)) IN
       (~doctors[2].configured /\ day >= now \div 86400) =>
         /\ r.kind = "Success"
         /\ IF DayNames[(day % 7) + 1] \in {"friday", "saturday"}
            THEN r.slots = <<>>
            ELSE /\ Len(r.slots) = 16
                 /\ \A k \in 1..16 :
                      /\ r.slots[k].start = 9 * 60 + 30 * (k - 1)
                      /\ r.slots[k].end = r.slots[k].start + 30
                      /\ r.slots[k].datetime = day * 86400 + r.slots[k].start * 60
                 /\ r.slots[16].end = 17 * 60)

\* on a Friday the doctor without a schedule was asked for the coming
\* Sunday and the sixteen slots from 09:00 to 17:00 were returned, while a
\* query for the Friday itself gives no slot
C18_Witness ==
  /\ resp.op = "availability"
  /\ resp.kind = "Success"
  /\ resp.id = 2
  /\ ~doctors[2].configured
  /\ now \div 86400 = 5
  /\ Len(resp.slots) = 16
  /\ resp.slots[1].datetime = 7 * 86400 + 9 * 3600
  /\ resp.slots[16].end = 17 * 60
  /\ AvailabilityResult(2, IsoDay(5)) = [kind |-> "Success", slots |-> <<>>]

\* C19: the availability query for a date strictly before today's date
\* fails with ValidationError and returns no slots; for today's date, for
\* every later date and for a request without a date, which stands for
\* today, the date check passes and the query succeeds.
C19_PastDateRejected ==
  [](\A d \in {1, 2}, day \in 0..7 :
       LET r == AvailabilityResult(d, IsoDay(day)) IN
       /\ IF day < now \div 86400
          THEN r = [kind |-> "ValidationError", slots |-> <<>>]
          ELSE r.kind = "Success"
       /\ AvailabilityResult(d, [fmt |-> "missing", day |-> 0]).kind = "Success")

\* on Tuesday a query was refused with ValidationError; the Monday before is
\* refused and the Tuesday itself is accepted
C19_Witness ==
  /\ resp.op = "availability"
  /\ resp.kind = "ValidationError"
  /\ resp.slots = <<>>
  /\ now \div 86400 = 2
  /\ AvailabilityResult(resp.id, IsoDay(1)).kind = "ValidationError"
  /\ AvailabilityResult(resp.id, IsoDay(2)).kind = "Success"

\* the doctor id does not resolve, or the doctor is unverified, or the
\* doctor's user is inactive
DoctorUnavailable(d) ==
  \/ d \notin DOMAIN doctors
  \/ ~doctors[d].is_verified
  \/ ~doctors[d].is_active

\* C20: create_appointment and the availability query called with a doctor
\* id that does not resolve, or whose doctor is unverified or whose user is
\* inactive, fail with the NotFound error kind.
C20_UnavailableDoctorIsNotFound ==
  /\ []((resp.op = "availability" /\ DoctorUnavailable(resp.id)) => resp.kind = "NotFound")
  /\ [][\A d \in {1, 3, 4}, t \in Times :
          (DoctorUnavailable(d) /\ CreateAppointment(1, d, Iso(t), "video")) =>
            resp'.kind = "NotFound"]_vars

\* C21: every appointment in the ledger, stored by create_appointment or
\* moved by reschedule_appointment, has an appointment_date equal to the
\* start of one of the 30-minute slots generated for its doctor on its date.
C21_AppointmentsSlotAligned ==
  \A i \in DOMAIN ledger :
    LET d == ledger[i].doctor_id
        day == ledger[i].appointment_date \div 86400
        hours == EffectiveHours(d)
    IN /\ DayName(day) \in DOMAIN hours
       /\ \E k \in DOMAIN AnnotatedSlots(d, day) :
            AnnotatedSlots(d, day)[k].datetime = ledger[i].appointment_date

\* C22: no operation removes an appointment from the ledger: the set of
\* appointment ids never shrinks, a successful cancel_appointment leaves the
\* appointment in the ledger with status cancelled, and a cancelled
\* appointment stays in the ledger with status cancelled.
C22_NeverHardDeleted ==
  [][/\ DOMAIN ledger \subseteq DOMAIN ledger'
     /\ (resp'.op = "cancel" /\ resp'.kind = "Success") =>
          /\ resp'.id \in DOMAIN ledger'
          /\ ledger'[resp'.id].status = "cancelled"
     /\ \A i \in DOMAIN ledger :
          ledger[i].status = "cancelled" =>
            /\ ledger'[i].status = "cancelled"
            /\ ledger'[i].patient_id = ledger[i].patient_id
            /\ ledger'[i].doctor_id = ledger[i].doctor_id
            /\ ledger'[i].appointment_date = ledger[i].appointment_date]_vars

\* a second appointment was rescheduled while the first, cancelled earlier,
\* is still in the ledger
C22_Witness ==
  /\ resp.op = "reschedule"
  /\ resp.kind = "Success"
  /\ resp.id = 2
  /\ ledger[1].status = "cancelled"

\* C23: when the audit log record cannot be emitted after create_appointment,
\* cancel_appointment or reschedule_appointment has committed its write, the
\* state transition is in the ledger after the call: the failure neither
\* blocks nor undoes it.
C23_LogFailureKeepsTransition ==
  [][resp'.kind = "InternalError" =>
       /\ resp'.op = "create" =>
            /\ Len(ledger') = Len(ledger) + 1
            /\ SubSeq(ledger', 1, Len(ledger)) = ledger
            /\ resp'.id = Len(ledger')
            /\ ledger'[resp'.id].status = "scheduled"
       /\ resp'.op = "cancel" =>
            /\ ledger[resp'.id].status # "cancelled"
            /\ ledger'[resp'.id].status = "cancelled"
       /\ resp'.op = "reschedule" =>
            /\ ledger'[resp'.id].status = "scheduled"
            /\ ledger'[resp'.id].appointment_date > now
            /\ ledger[resp'.id].status \notin {"completed", "cancelled", "in_progress"}]_vars

\* a cancel was answered with an internal error because the logger raised,
\* and the appointment is cancelled with the reason written
C23_Witness ==
  /\ resp.op = "cancel"
  /\ resp.kind = "InternalError"
  /\ ledger[resp.id].status = "cancelled"
  /\ ledger[resp.id].notes = "reason"

\* C24: a create_appointment whose insert meets a non-terminal appointment
\* already stored for its (doctor_id, appointment_date), the uniqueness
\* violation, ends with the Conflict outcome of the pre-check and adds
\* nothing.
C24_InsertViolationIsConflict ==
  [][\A p \in DOMAIN reqs :
       (/\ ReqCommit(p)
        /\ ExistingAppointment(ledger, reqs[p].appointment[1].doctor_id,
                               reqs[p].appointment[1].appointment_date) # {}) =>
         /\ reqs'[p].kind = "Conflict"
         /\ ledger' = ledger]_vars

\* C25: at most one appointment with status scheduled, confirmed or
\* in_progress exists per (doctor, timestamp) when reschedule_appointment
\* runs concurrently with create_appointment, or with a reschedule of a
\* different appointment, for the same (doctor, new_timestamp), the conflict
\* query and the commit of each request being separate steps.
C25_NoDoubleBookingConcurrentMove ==
  \A i, j \in DOMAIN ledger :
    (/\ i < j
     /\ ledger[i].doctor_id = ledger[j].doctor_id
     /\ ledger[i].appointment_date = ledger[j].appointment_date) =>
       \/ ledger[i].status \notin {"scheduled", "confirmed", "in_progress"}
       \/ ledger[j].status \notin {"scheduled", "confirmed", "in_progress"}

\* C26: once the start time of an appointment is at most one hour away, no
\* sequence of cancel_appointment and reschedule_appointment calls brings
\* that appointment to status cancelled: a step taken while the appointment
\* is inside the cutoff and not cancelled leaves it not cancelled and leaves
\* its patient without a cancel_appointment call that would succeed.
C26_NoCancelAfterCutoff ==
  [][\A id \in DOMAIN ledger :
       (/\ ledger[id].status # "cancelled"
        /\ ledger[id].appointment_date - now <= 60 * 60) =>
          (/\ ledger[id].status # "cancelled"
           /\ CancelResult(1, id) # "Success")']_vars

\* C27: every slot that the availability query reports with available = true
\* is bookable at that moment: its start is strictly later than now and a
\* create_appointment of a patient for that doctor at the slot's datetime
\* with a valid type succeeds.
C27_AvailableSlotIsBookable ==
  (resp.op = "availability" /\ resp.kind = "Success") =>
    \A k \in DOMAIN resp.slots :
      resp.slots[k].available =>
        /\ resp.slots[k].datetime > now
        /\ CreateResult(1, resp.id, Iso(resp.slots[k].datetime), "video") = "Success"

\* C28: create_appointment, cancel_appointment and reschedule_appointment
\* answer with success if and only if the call changed the ledger, and a
\* call answered with an internal error has left the ledger as it was.  (A
\* successful reschedule onto the appointment's own date and status changes
\* only its updated_at column, which the ledger of the model does not hold.)
C28_SuccessIffLedgerChanged ==
  [][resp'.op \in {"create", "cancel", "reschedule"} =>
       /\ ledger' # ledger => resp'.kind = "Success"
       /\ (resp'.kind = "Success" /\ resp'.op # "reschedule") => ledger' # ledger
       /\ resp'.kind = "InternalError" => ledger' = ledger]_vars

\* C29: slot generation terminates for every schedule entry: the loop runs
\* ceil((end - start) / 30 minutes) iterations when start < end and none
\* when start is equal to or later than end, for which the slot list is
\* empty; from one iteration to the next the current time advances by
\* exactly 30 minutes.
C29_SlotLoopTerminates ==
  [](\A d \in {1, 2}, day \in 0..7 :
       LET hours == EffectiveHours(d) IN
       (day >= now \div 86400 /\ DayName(day) \in DOMAIN hours) =>
         LET start == hours[DayName(day)].start
             end == hours[DayName(day)].end
             visited == LoopIterations(day * 86400 + start * 60, day * 86400 + end * 60)
             r == AvailabilityResult(d, IsoDay(day))
         IN /\ Len(visited) = IF start < end THEN (end - start + 29) \div 30 ELSE 0
            /\ \A k \in DOMAIN visited : visited[k] = day * 86400 + start * 60 + (k - 1) * 30 * 60
            /\ r.kind = "Success"
            /\ Len(r.slots) <= Len(visited)
            /\ start >= end => r.slots = <<>>)

\* the Monday entry of the schedule starts at 10:00 and ends at 09:00, and a
\* query returned an empty slot list, as the query for that Monday does
C29_Witness ==
  /\ resp.op = "availability"
  /\ resp.kind = "Success"
  /\ resp.id = 1
  /\ resp.slots = <<>>
  /\ doctors[1].available_hours = [x \in {"monday"} |-> [start |-> 600, end |-> 540]]
  /\ now \div 86400 = 1
  /\ AvailabilityResult(1, IsoDay(1)) = [kind |-> "Success", slots |-> <<>>]

\* C30: in every state reached through the doctor profile update,
\* update_doctor_participation_settings, switch_to_volunteer and
\* switch_to_paid, a doctor whose participation_type is volunteer has
\* consultation_fee 0 and a doctor whose participation_type is paid has a
\* consultation_fee greater than 0.
C30_FeeMatchesParticipation ==
  \A d \in DOMAIN doctors :
    /\ doctors[d].participation_type = "volunteer" => doctors[d].consultation_fee = 0
    /\ doctors[d].participation_type = "paid" => doctors[d].consultation_fee > 0
====
